---- MODULE Spec2Model ----
(***************************************************************************)
(* State-machine model of the blocks game: the GameController session      *)
(* (flags, score, level, level timer), the four Menu instances with their  *)
(* show/hide animations, the Dashboard pause button and the                *)
(* BlockController simulator (timeline, spawn timer, active blocks).       *)
(*                                                                         *)
(* The handlers of one event run synchronously, in registration order      *)
(* (initializeGame: setupGameEvents, addGameArea, addMenus, addDashboard,  *)
(* addBlockController); a handler that emits runs the nested emission to   *)
(* completion first.  Handlers are therefore operators from a state        *)
(* record to a state record, and every action (one browser task: a click,  *)
(* a key press, an animation callback, a timeout, an animation frame)      *)
(* applies such a composition to the current state.                        *)
(***************************************************************************)
EXTENDS Integers, Sequences, FiniteSets, TLC

VARIABLES
  isGameInProgress, isPaused, score, level, levelProgress,  \* GameController
  startTime, lastTime, rafID, rafs,      \* createTimer closure + pending frames
  now,                                   \* timestamp of the last animation frame
  menuDisplayed, isAnimating, animQueue, \* per Menu
  mainMenuTimer, instrTimers,            \* pending setTimeout callbacks
  pauseButtonOpacity,                    \* Dashboard.pauseButton.opacity
  gaDangerZonePosition,                  \* GameArea.dangerZonePosition
  timelineRunning, createPending, createLive,   \* stage.timeline, spawn timer
  blocks, scoreFree, dangerFree, endTimers,     \* BlockController entities
  scoreMade, dangerMade,                        \* entities each pool created
  peak,                                  \* most entities out of each pool
  boot,                                  \* controller.canvas, initializeGame
  hs,                                    \* HighScoreMenu and its requests
  bcLevel, dangerZonePosition, lastColumn,      \* BlockController parameters
  blockSpeed, increaseSpeedStep, createInterval,
  isTouch,                               \* canvas.isTouch
  inputs, spawns,                        \* user inputs left, spawns left
  endCap,                                \* endLevel timeouts pending at most
  timerStopped, levelStopped, levelAtStop, played, mark,   \* history
  log                                    \* events emitted by the last step

vars == <<isGameInProgress, isPaused, score, level, levelProgress,
          startTime, lastTime, rafID, rafs, now,
          menuDisplayed, isAnimating, animQueue, mainMenuTimer, instrTimers,
          pauseButtonOpacity, gaDangerZonePosition,
          timelineRunning, createPending, createLive,
          blocks, scoreFree, dangerFree, endTimers, scoreMade, dangerMade,
          peak, boot, hs,
          bcLevel, dangerZonePosition, lastColumn,
          blockSpeed, increaseSpeedStep, createInterval,
          isTouch, inputs, spawns, endCap,
          timerStopped, levelStopped, levelAtStop, played, mark, log>>

----------------------------------------------------------------------------
(* Bounds of the model *)

\* number of levels of a game (GameController.totalLevels is 10)
totalLevels == 2
\* animation frames in one level (GameController.levelTime is 30 seconds)
levelTime == 2
\* last animation-frame timestamp
MaxTime == 6
\* user inputs (clicks, taps, key presses) in one run
MaxInputs == 3
\* user inputs in one run in which no spawn timeout fires
MaxSessionInputs == 4
\* user inputs in one run whose timers and animations run to their end
MaxLiveInputs == 2
\* animations queued on one menu object
MaxAnim == 2
\* pending instruction timeouts
MaxInstr == 1
\* pending animation-frame requests
MaxRaf == 2
\* blocks spawned in one run
MaxSpawns == 1
\* pending endLevel timeouts
MaxEnd == 1
\* entities preallocated per pool (Pool.add(10) in BlockController)
PoolSize == 1
\* half the height of the stage, in position units
StageHalfHeight == 60
\* half of GameArea.dangerZoneStepSize, in position units
DangerZoneHalfStep == 30
\* size of a block, in position units
blockSize == 60
\* columns of the block area (BlockController.numColumns is 6)
numColumns == 3
\* highest level handed to the block controller on its own
MaxLevel == 10
\* user inputs in a run of the block controller on its own
MaxBlockInputs == 3
\* spawns in a run of the block controller on its own
MaxBlockSpawns == 3
\* the danger zone lies at most this many ticks of fall below the spawn point
MaxThresholdTicks == 1
\* pending endLevel timeouts in a run of the block controller with level ends
MaxClearEnd == 2
\* user inputs in a run of the block controller with level ends
MaxClearInputs == 2
\* entities created in a run with setLevel called on its own
MaxLevelSpawns == 2
\* user inputs and entities created in a run in which every entity is missed
MaxMissInputs == 1
MaxMissSpawns == 17
\* user inputs in a run from the new GameController on
MaxBootInputs == 2
\* places in the high score list (HighScoreMenu.highScoreCount is 5)
highScoreCount == 2
\* calls of getHighScores and setScore, failing server answers and calls of
\* saveHighScore from the input in a run of the high score menu
MaxScoreCalls == 4
MaxScoreFails == 2
MaxChains == 2

----------------------------------------------------------------------------
(* Configuration: the controller has its four menus, the dashboard, the     *)
(* game area and the block controller; Canvas sets no isTouch (a mouse      *)
(* canvas) and the device pixel ratio is 1.                                 *)

Menus == {"main", "pause", "continue", "gameOver"}

\* GameController.initializeGame: canvas.isTouch ? 10 : 15
scoreBlockScore(touch) == IF touch THEN 10 ELSE 15
\* GameController.initializeGame: canvas.isTouch ? -100 : -150
dangerBlockScore(touch) == IF touch THEN -100 ELSE -150

\* Positions and speeds are counted in 1/60 of a canvas pixel, so that every
\* speed the code computes (2 + 0.4 * level, level / 4, max / 1.5, 0.2) is an
\* integer; the device pixel ratio is 1.
SpeedUnit == 60
\* createInterval is counted in half milliseconds (level * level * 2.5)
IntervalUnit == 2

stageHeight == 2 * StageHalfHeight
dangerZoneStepSize == 2 * DangerZoneHalfStep

Max(a, b) == IF a >= b THEN a ELSE b
Min(a, b) == IF a <= b THEN a ELSE b

----------------------------------------------------------------------------
(* The state as one record, so that handlers compose.  rafCur (the callbacks *)
(* of the animation frame being run) and rafNext (the next request id) live  *)
(* only inside one step.                                                     *)

State ==
  [isGameInProgress |-> isGameInProgress, isPaused |-> isPaused,
   score |-> score, level |-> level, levelProgress |-> levelProgress,
   startTime |-> startTime, lastTime |-> lastTime, rafID |-> rafID,
   rafs |-> rafs, rafCur |-> <<>>, rafNext |-> Len(rafs) + 1, now |-> now,
   menuDisplayed |-> menuDisplayed, isAnimating |-> isAnimating,
   animQueue |-> animQueue, mainMenuTimer |-> mainMenuTimer,
   instrTimers |-> instrTimers, pauseButtonOpacity |-> pauseButtonOpacity,
   gaDangerZonePosition |-> gaDangerZonePosition,
   timelineRunning |-> timelineRunning, createPending |-> createPending,
   createLive |-> createLive, blocks |-> blocks, scoreFree |-> scoreFree,
   dangerFree |-> dangerFree, endTimers |-> endTimers, bcLevel |-> bcLevel,
   scoreMade |-> scoreMade, dangerMade |-> dangerMade, peak |-> peak,
   boot |-> boot, hs |-> hs,
   dangerZonePosition |-> dangerZonePosition, lastColumn |-> lastColumn,
   blockSpeed |-> blockSpeed, increaseSpeedStep |-> increaseSpeedStep,
   createInterval |-> createInterval, isTouch |-> isTouch,
   inputs |-> inputs, spawns |-> spawns, endCap |-> endCap,
   timerStopped |-> timerStopped,
   levelStopped |-> levelStopped, levelAtStop |-> levelAtStop,
   played |-> played, mark |-> mark, log |-> <<>>]

Logged(s, e) == [s EXCEPT !.log = Append(@, e)]

(* History variables, written by the handlers and read by no handler:       *)
(*   timerStopped  stopTimer was called after the last startTimer/resumeTimer *)
(*   levelStopped  'stop-level' was emitted after the last startTimer        *)
(*   levelAtStop   level at the last 'stop-level', 0 after a reset           *)
(*   played        the 'play' item has been accepted                         *)
(*   peak          per pool, the most entities that were out of it at once   *)
(*   mark          the progress at the last 'pause-game', and the first      *)
(*                 progress sampled after the 'resume-game' that followed    *)
NoMark == [phase |-> "none", progress |-> 0, sample |-> 0]

----------------------------------------------------------------------------
(* requestAnimationFrame / cancelAnimationFrame *)

RECURSIVE DropId(_, _)
DropId(q, id) ==
  IF q = <<>> THEN <<>>
  ELSE IF Head(q).id = id THEN Tail(q)
  ELSE <<Head(q)>> \o DropId(Tail(q), id)

\* rafID = requestAnimationFrame(callback)
requestAnimationFrame(s, kind) ==
  [s EXCEPT !.rafs = Append(@, [id |-> s.rafNext, kind |-> kind]),
            !.rafID = s.rafNext,
            !.rafNext = @ + 1]

\* a cancelled request is dropped whether it waits for the next frame or is
\* still to run in the current one
cancelAnimationFrame(s, id) ==
  [s EXCEPT !.rafs = DropId(@, id), !.rafCur = DropId(@, id)]

----------------------------------------------------------------------------
(* Menu.show / Menu.hide.  canvasObject.animate appends to the object's     *)
(* animation queue; the callback runs when that animation ends (AnimDone).  *)

MenuShow(s, m) ==
  [s EXCEPT !.isAnimating[m] = TRUE,
            !.menuDisplayed[m] = TRUE,
            !.animQueue[m] = Append(@, "show")]

\* cb names the opt_callback closure passed by GameController
MenuHide(s, m, cb) ==
  [s EXCEPT !.isAnimating[m] = TRUE,
            !.animQueue[m] = Append(@, cb)]

----------------------------------------------------------------------------
(* GameArea *)

\* setDangerZoneSize(multiplier): dangerZonePosition = stage.height - height,
\* height = dangerZoneStepSize * multiplier * dpr.  The callers pass
\* level / 2 + 0.5 or -1, given here as twice the multiplier.
setDangerZoneSize(s, twiceMultiplier) ==
  [s EXCEPT !.gaDangerZonePosition =
              stageHeight - DangerZoneHalfStep * twiceMultiplier]

----------------------------------------------------------------------------
(* BlockController: parameters, timeline and spawn timer *)

initialBlockSpeedConst == 2
increaseSpeedEvery == 2

\* this.canvas.isTouch ? 700 : 900
initialCreateInterval(touch) == IntervalUnit * (IF touch THEN 700 ELSE 900)
\* this.canvas.isTouch ? 7 : 5
maxBlockSpeed(touch) == SpeedUnit * (IF touch THEN 7 ELSE 5)

\* setLevel that leaves createInterval as it is
setLevel_KeepsInterval(s, lv) ==
  LET speedConst == SpeedUnit * initialBlockSpeedConst
      max == maxBlockSpeed(s.isTouch)
      initialBlockSpeed == IF s.isTouch
                           THEN Min(speedConst + lv * 45, max)
                           ELSE Min(speedConst + lv * 24, max)
  IN  [Logged(s, "setLevel") EXCEPT
                !.bcLevel = lv,
                !.blockSpeed = initialBlockSpeed,
                !.increaseSpeedStep = 0]

\* level * 0.75 and level * 0.4 in speed units; the call is noted in the
\* log as "setLevel"
setLevel(s, lv) ==
  LET speedConst == SpeedUnit * initialBlockSpeedConst
      max == maxBlockSpeed(s.isTouch)
      initialBlockSpeed == IF s.isTouch
                           THEN Min(speedConst + lv * 45, max)
                           ELSE Min(speedConst + lv * 24, max)
  IN  [Logged(s, "setLevel") EXCEPT
                !.bcLevel = lv,
                !.blockSpeed = initialBlockSpeed,
                !.increaseSpeedStep = 0,
                !.createInterval = initialCreateInterval(s.isTouch)]

setDangerZonePosition(s, position) == [s EXCEPT !.dangerZonePosition = position]

\* increaseBlockSpeed where the cut of the maximum below level 5 is left out
increaseBlockSpeed_NoLowLevelCut(s, amount, force) ==
  LET max0 == maxBlockSpeed(s.isTouch)
      max == IF force THEN SpeedUnit * 10 ELSE max0
  IN  [s EXCEPT !.blockSpeed = Min(@ + amount, max)]

\* increaseBlockSpeed(amount, opt_force): max / 1.5 is (2 * max) / 3
increaseBlockSpeed(s, amount, force) ==
  LET max0 == maxBlockSpeed(s.isTouch)
      max1 == IF s.bcLevel < 5 THEN (2 * max0) \div 3 ELSE max0
      max == IF force THEN SpeedUnit * 10 ELSE max1
  IN  [s EXCEPT !.blockSpeed = Min(@ + amount, max)]

\* objectCreateTimer = setTimeout(..., createInterval).  createPending counts
\* the timeouts that are set, createLive tells whether objectCreateTimer is
\* one of them.
startCreateTimer(s) ==
  [s EXCEPT !.createPending = @ + 1, !.createLive = TRUE]

\* clearTimeout(this.objectCreateTimer)
stopCreateTimer(s) ==
  IF s.createLive
  THEN [s EXCEPT !.createPending = @ - 1, !.createLive = FALSE]
  ELSE s

\* startGame without the test of timeline.running
startGame_Unguarded(s) ==
  startCreateTimer([s EXCEPT !.timelineRunning = TRUE])

startGame(s) ==
  IF s.timelineRunning THEN s
  ELSE startCreateTimer([s EXCEPT !.timelineRunning = TRUE])

stopGame(s) ==
  IF ~s.timelineRunning THEN s
  ELSE stopCreateTimer([s EXCEPT !.timelineRunning = FALSE])

\* every block in this.blocks starts to fall by stage.height * 1.5 (animate
\* appends the move to the object's queue) and the timeout that removes
\* the blocks is set
endLevel(s) ==
  [s EXCEPT !.blocks = [i \in 1..Len(@) |->
                          [@[i] EXCEPT !.fall =
                             Append(@, s.blocks[i].y + 3 * StageHalfHeight)]],
            !.endTimers = @ + 1]

----------------------------------------------------------------------------
(* GameController.createTimer: startTimer, stopTimer, resumeTimer,          *)
(* resetTimer.  null is 0: every use of startTime and lastTime coerces it   *)
(* to a number or tests its truthiness.  levelProgress is kept as the       *)
(* elapsed time, so that progress = levelProgress / levelTime.              *)

startTimer(s) ==
  requestAnimationFrame([s EXCEPT !.startTime = 0, !.levelProgress = 0,
                                  !.timerStopped = FALSE,
                                  !.levelStopped = FALSE, !.mark = NoMark],
                        "timerTick")

stopTimer(s) ==
  LET s1 == [s EXCEPT !.timerStopped = TRUE]
  IN  IF s.rafID # 0 THEN cancelAnimationFrame(s1, s.rafID) ELSE s1

resumeTimer(s) ==
  requestAnimationFrame([s EXCEPT !.timerStopped = FALSE], "resume")

resetTimer(s) == [s EXCEPT !.levelProgress = 0]

----------------------------------------------------------------------------
(* Event handlers, per event in registration order.  Emit_x(s) is           *)
(* this.emit('x') applied to state s.                                       *)

\* 'show-instructions': GameArea shows the instructions and sets the
\* timeout whose completion emits 'initiate-gameplay'
Emit_show_instructions(s) ==
  [Logged(s, "show-instructions") EXCEPT !.instrTimers = @ + 1]

\* 'start-new-game' when the emission made inside its first handler is put
\* off until the remaining handlers have run
Emit_start_new_game_NestedLast(s) ==
  LET s0 == Logged(s, "start-new-game")
      s1 == setDangerZoneSize(s0, s0.level + 1)
      s2 == setDangerZonePosition(setLevel(s1, s1.level),
                                  s1.gaDangerZonePosition)
  IN  Emit_show_instructions(s2)

\* 'start-new-game': addGameArea, addDashboard, addBlockController
Emit_start_new_game(s) ==
  LET s0 == Logged(s, "start-new-game")
      s1 == Emit_show_instructions(setDangerZoneSize(s0, s0.level + 1))
  IN  setDangerZonePosition(setLevel(s1, s1.level), s1.gaDangerZonePosition)

\* 'initiate-gameplay': setupGameEvents, addDashboard, addBlockController
Emit_initiate_gameplay(s) ==
  LET s0 == Logged(s, "initiate-gameplay")
      s1 == startTimer([s0 EXCEPT !.isGameInProgress = TRUE])
      s2 == [s1 EXCEPT !.pauseButtonOpacity = 1]
  IN  startGame(s2)

\* 'pause-game': setupGameEvents, addGameArea, addMenus, addDashboard,
\* addBlockController
Emit_pause_game(s) ==
  LET s0 == Logged(s, "pause-game")
      s1 == stopTimer([s0 EXCEPT !.isPaused = TRUE,
                                 !.mark = [phase |-> "paused",
                                           progress |-> s0.levelProgress,
                                           sample |-> 0]])
      s2 == MenuShow(s1, "pause")
  IN  stopGame(s2)

\* 'resume-game': setupGameEvents, addGameArea, addBlockController
Emit_resume_game(s) ==
  LET s0 == Logged(s, "resume-game")
      s1 == resumeTimer([s0 EXCEPT !.isPaused = FALSE,
                                   !.mark.phase = IF @ = "paused"
                                                  THEN "resumed" ELSE @])
  IN  startGame(s1)

\* 'action:resume-game': addMenus, addDashboard
Emit_action_resume_game(s) ==
  MenuHide(Logged(s, "action:resume-game"), "pause", "resume")

\* 'restart-game': setupGameEvents
\* 'restart-game' with no handler
Emit_restart_game_Unhandled(s) == Logged(s, "restart-game")

Emit_restart_game(s) == Emit_start_new_game(Logged(s, "restart-game"))

\* 'action:reset-game': setupGameEvents, addDashboard, addBlockController
Emit_action_reset_game(s) ==
  LET s0 == Logged(s, "action:reset-game")
      s1 == stopTimer(s0)
      s2 == [s1 EXCEPT !.score = 0, !.level = 1, !.levelProgress = 0,
                       !.isPaused = FALSE, !.isGameInProgress = FALSE,
                       !.levelAtStop = 0, !.mark = NoMark]
  IN  endLevel(s2)

\* 'action:restart-game': addDashboard
Emit_action_restart_game(s) ==
  [Logged(s, "action:restart-game") EXCEPT !.pauseButtonOpacity = 0]

\* 'action:go-mainmenu': addGameArea, addDashboard
Emit_action_go_mainmenu(s) ==
  [setDangerZoneSize(Logged(s, "action:go-mainmenu"), -2)
     EXCEPT !.pauseButtonOpacity = 0]

\* 'reset-game': addGameArea (fadeIn only)
Emit_reset_game(s) == Logged(s, "reset-game")

\* 'action:start-new-game': no handler in this controller
Emit_action_start_new_game(s) == Logged(s, "action:start-new-game")

\* 'stop-level' without the last-level branch: the continue menu is shown
\* at every level
Emit_stop_level_AlwaysContinue(s) ==
  LET s0 == Logged(s, "stop-level")
      s1 == [s0 EXCEPT !.isGameInProgress = FALSE,
                       !.levelStopped = TRUE, !.levelAtStop = s0.level]
  IN  endLevel(stopGame(MenuShow(s1, "continue")))

\* 'stop-level': setupGameEvents, addGameArea, addMenus, addDashboard,
\* addBlockController
Emit_stop_level(s) ==
  LET s0 == Logged(s, "stop-level")
      s1 == [s0 EXCEPT !.isGameInProgress = FALSE,
                       !.levelStopped = TRUE, !.levelAtStop = s0.level]
      s2 == IF s1.level = totalLevels
            THEN MenuShow([s1 EXCEPT !.pauseButtonOpacity = 0], "gameOver")
            ELSE MenuShow(s1, "continue")
  IN  endLevel(stopGame(s2))

\* 'action:start-next-level': setupGameEvents, addGameArea, addMenus,
\* addDashboard
Emit_action_start_next_level(s) ==
  LET s0 == Logged(s, "action:start-next-level")
      s1 == [resetTimer(s0) EXCEPT !.level = @ + 1, !.isGameInProgress = TRUE]
      s2 == setDangerZoneSize(s1, s1.level + 1)
  IN  MenuHide(s2, "continue", "nextLevel")

\* 'start-next-level': setupGameEvents, addBlockController
Emit_start_next_level(s) ==
  LET s0 == Logged(s, "start-next-level")
      s1 == startTimer(s0)
      s2 == setDangerZonePosition(setLevel(s1, s1.level),
                                  s1.gaDangerZonePosition)
  IN  startGame(s2)

\* 'score-increase': setupGameEvents
Emit_score_increase(s, amount) ==
  [Logged(s, "score-increase") EXCEPT !.score = @ + amount]

\* 'score-decrease' without Math.max
Emit_score_decrease_Unclamped(s, amount) ==
  [Logged(s, "score-decrease") EXCEPT !.score = @ - amount]

\* 'score-decrease': setupGameEvents
Emit_score_decrease(s, amount) ==
  [Logged(s, "score-decrease") EXCEPT !.score = Max(0, @ - amount)]

----------------------------------------------------------------------------
(* BlockController: the blocks.  A block is [kind, id, y, fall]: its class   *)
(* (ScoreBlock or DangerBlock), its identity within its pool, its            *)
(* canvasObject.y and the queued moves of its canvasObject.                  *)

\* 'scoreblock-click' (GameController.addBlockController)
Emit_scoreblock_click(s) ==
  Emit_score_increase(Logged(s, "scoreblock-click"),
                      scoreBlockScore(s.isTouch))

\* 'dangerblock-click' (GameController.addBlockController)
Emit_dangerblock_click(s) ==
  Emit_score_decrease(Logged(s, "dangerblock-click"),
                      -dangerBlockScore(s.isTouch))

\* 'scoreblock-reach-end' adding 0.2 without any maximum
Emit_scoreblock_reach_end_Uncapped(s) ==
  [Logged(s, "scoreblock-reach-end") EXCEPT !.blockSpeed = @ + 12]

\* 'scoreblock-reach-end' (BlockController constructor): 0.2 forced
Emit_scoreblock_reach_end(s) ==
  increaseBlockSpeed(Logged(s, "scoreblock-reach-end"), 12, TRUE)

\* 'dangerblock-reach-end': no handler
Emit_dangerblock_reach_end(s) == Logged(s, "dangerblock-reach-end")

\* Pool.get(): a retired entity if there is one (the i-th of the free list),
\* otherwise a new one from createFunction.  The result is the entity, the
\* new free list and the number of entities the pool has created.
PoolGet(free, made, i) ==
  IF free = <<>>
  THEN [id |-> made + 1, free |-> free, made |-> made + 1]
  ELSE [id |-> free[i], made |-> made,
        free |-> SubSeq(free, 1, i - 1) \o SubSeq(free, i + 1, Len(free))]

\* Pool.putBack(block)
putBack(s, b) ==
  IF b.kind = "score"
  THEN [s EXCEPT !.scoreFree = Append(@, b.id)]
  ELSE [s EXCEPT !.dangerFree = Append(@, b.id)]

\* blocks.indexOf(block), 0-based, -1 when absent
RECURSIVE IndexOfBlock(_, _, _)
IndexOfBlock(q, b, n) ==
  IF q = <<>> THEN -1
  ELSE IF Head(q).kind = b.kind /\ Head(q).id = b.id THEN n
  ELSE IndexOfBlock(Tail(q), b, n + 1)

\* blocks.splice(index, 1): a negative index counts from the end
Splice1(q, index) ==
  LET start == IF index < 0 THEN Max(Len(q) + index, 0) ELSE Min(index, Len(q))
  IN  IF start >= Len(q) THEN q
      ELSE SubSeq(q, 1, start) \o SubSeq(q, start + 2, Len(q))

Undefined == -2

\* removeBlock where the block is put back but stays in this.blocks
removeBlock_KeepsActive(s, b, opt_index) == putBack(s, b)

\* removeBlock where the block is not looked up when no index is given
removeBlock_NoLookup(s, b, opt_index) ==
  LET s1 == putBack(s, b)
      index == IF opt_index = Undefined THEN -1 ELSE opt_index
  IN  [s1 EXCEPT !.blocks = Splice1(@, index)]

\* removeBlock that does not give the block back to its pool
removeBlock_NoPutBack(s, b, opt_index) ==
  LET index == IF opt_index = Undefined
               THEN IndexOfBlock(s.blocks, b, 0) ELSE opt_index
  IN  [s EXCEPT !.blocks = Splice1(@, index)]

\* removeBlock(block, opt_index)
removeBlock(s, b, opt_index) ==
  LET s1 == putBack(s, b)
      index == IF opt_index = Undefined
               THEN IndexOfBlock(s1.blocks, b, 0) ELSE opt_index
  IN  [s1 EXCEPT !.blocks = Splice1(@, index)]

\* the loop condition without the comparison with lastColumn
drawAgain_NoRepeatTest(column, last) == column = 0

\* the condition of addBlock's while loop: the draw is thrown away and the
\* loop goes round again
drawAgain(column, last) == column = 0 \/ column = last

\* addBlock with the random draws given: r = getRandomInt(0, 10), the column
\* that ends the while loop, and the entity the pool hands out
addBlock(s, r, column, pick) ==
  LET isScoreBlock == (r % 6) # 0
      got == IF isScoreBlock THEN PoolGet(s.scoreFree, s.scoreMade, pick)
                             ELSE PoolGet(s.dangerFree, s.dangerMade, pick)
      s1 == IF isScoreBlock
            THEN [s EXCEPT !.scoreFree = got.free, !.scoreMade = got.made]
            ELSE [s EXCEPT !.dangerFree = got.free, !.dangerMade = got.made]
      object == [kind |-> IF isScoreBlock THEN "score" ELSE "danger",
                 id |-> got.id, y |-> -blockSize, fall |-> <<>>]
      out == Len(SelectSeq(s.blocks, LAMBDA b : b.kind = object.kind)) + 1
  IN  [s1 EXCEPT !.lastColumn = column,
                 !.blocks = Append(@, object),
                 !.peak[object.kind] = Max(@, out),
                 !.spawns = @ - 1]

\* onClick where every score click is a speed-up step
onClick_EveryClick(s, b) ==
  LET s1 ==
        IF b.kind = "score"
        THEN LET a == Emit_scoreblock_click(s)
                 c == increaseBlockSpeed(
                        [a EXCEPT !.increaseSpeedStep = 0],
                        Min(15 * a.bcLevel, 2 * SpeedUnit), FALSE)
                 min == IF c.isTouch
                        THEN IntervalUnit * (500 - c.bcLevel * 20)
                        ELSE IntervalUnit * (700 - c.bcLevel * 10)
                 val == c.createInterval - c.bcLevel * c.bcLevel * 5
             IN  [c EXCEPT !.createInterval = Max(val, min)]
        ELSE Emit_dangerblock_click(s)
  IN  removeBlock(s1, b, Undefined)

\* onClick where the new createInterval is not held at the level's minimum
onClick_NoMinimum(s, b) ==
  LET s1 ==
        IF b.kind = "score"
        THEN LET a == Emit_scoreblock_click(s)
                 b1 == [a EXCEPT !.increaseSpeedStep = @ + 1]
                 c == IF b1.increaseSpeedStep = increaseSpeedEvery
                      THEN increaseBlockSpeed(
                             [b1 EXCEPT !.increaseSpeedStep = 0],
                             Min(15 * b1.bcLevel, 2 * SpeedUnit), FALSE)
                      ELSE b1
                 val == c.createInterval - c.bcLevel * c.bcLevel * 5
             IN  [c EXCEPT !.createInterval = val]
        ELSE Emit_dangerblock_click(s)
  IN  removeBlock(s1, b, Undefined)

\* onClick(block)
onClick(s, b) ==
  LET s1 ==
        IF b.kind = "score"
        THEN LET a == Emit_scoreblock_click(s)
                 b1 == [a EXCEPT !.increaseSpeedStep = @ + 1]
                 c == IF b1.increaseSpeedStep = increaseSpeedEvery
                      THEN increaseBlockSpeed(
                             [b1 EXCEPT !.increaseSpeedStep = 0],
                             Min(15 * b1.bcLevel, 2 * SpeedUnit), FALSE)
                      ELSE b1
                 min == IF c.isTouch
                        THEN IntervalUnit * (500 - c.bcLevel * 20)
                        ELSE IntervalUnit * (700 - c.bcLevel * 10)
                 val == c.createInterval - c.bcLevel * c.bcLevel * 5
             IN  [c EXCEPT !.createInterval = Max(val, min)]
        ELSE Emit_dangerblock_click(s)
  IN  removeBlock(s1, b, Undefined)

\* the loop of gameTick from index i (0-based) with l blocks left to visit
RECURSIVE TickLoop(_, _, _, _)
TickLoop(s, i, l, speed) ==
  IF i >= l THEN s
  ELSE LET moved == [s EXCEPT !.blocks[i + 1].y = @ + speed]
           block == moved.blocks[i + 1]
       IN  IF block.y > moved.dangerZonePosition
           THEN LET e == IF block.kind = "score"
                         THEN Emit_scoreblock_reach_end(moved)
                         ELSE Emit_dangerblock_reach_end(moved)
                IN  TickLoop(removeBlock(e, block, i), i, l - 1, speed)
           ELSE TickLoop(moved, i + 1, l, speed)

\* the loop retiring a block already when it is at dangerZonePosition
RECURSIVE TickLoop_AtThreshold(_, _, _, _)
TickLoop_AtThreshold(s, i, l, speed) ==
  IF i >= l THEN s
  ELSE LET moved == [s EXCEPT !.blocks[i + 1].y = @ + speed]
           block == moved.blocks[i + 1]
       IN  IF block.y >= moved.dangerZonePosition
           THEN LET e == IF block.kind = "score"
                         THEN Emit_scoreblock_reach_end(moved)
                         ELSE Emit_dangerblock_reach_end(moved)
                IN  TickLoop_AtThreshold(removeBlock(e, block, i), i, l - 1,
                                         speed)
           ELSE TickLoop_AtThreshold(moved, i + 1, l, speed)

gameTick_AtThreshold(s) ==
  TickLoop_AtThreshold(Logged(s, "gameTick"), 0, Len(s.blocks), s.blockSpeed)

\* the loop without the i-- that follows a removal
RECURSIVE TickLoop_NoStepBack(_, _, _, _)
TickLoop_NoStepBack(s, i, l, speed) ==
  IF i >= l THEN s
  ELSE LET moved == [s EXCEPT !.blocks[i + 1].y = @ + speed]
           block == moved.blocks[i + 1]
       IN  IF block.y > moved.dangerZonePosition
           THEN LET e == IF block.kind = "score"
                         THEN Emit_scoreblock_reach_end(moved)
                         ELSE Emit_dangerblock_reach_end(moved)
                IN  TickLoop_NoStepBack(removeBlock(e, block, i), i + 1,
                                        l - 1, speed)
           ELSE TickLoop_NoStepBack(moved, i + 1, l, speed)

gameTick_NoStepBack(s) ==
  TickLoop_NoStepBack(Logged(s, "gameTick"), 0, Len(s.blocks), s.blockSpeed)

gameTick(s) == TickLoop(Logged(s, "gameTick"), 0, Len(s.blocks), s.blockSpeed)

\* the timeout set by endLevel: removeBlock(blocks[i], i) for every block
RECURSIVE EndLoop(_, _, _)
EndLoop(s, i, l) ==
  IF i >= l THEN s
  ELSE EndLoop(removeBlock(s, s.blocks[i + 1], i), i, l - 1)

\* the timeout's loop without the i-- that follows a removal
RECURSIVE EndLoop_NoStepBack(_, _, _)
EndLoop_NoStepBack(s, i, l) ==
  IF i >= l THEN s
  ELSE EndLoop_NoStepBack(removeBlock(s, s.blocks[i + 1], i), i + 1, l - 1)

endLevelTimeout_NoStepBack(s) == EndLoop_NoStepBack(s, 0, Len(s.blocks))

endLevelTimeout(s) == EndLoop(s, 0, Len(s.blocks))

----------------------------------------------------------------------------
(* timerTick and the resume closure, run by an animation frame *)

timerTick(s, timestamp) ==
  LET s1 == IF timestamp # 0 /\ s.startTime = 0
            THEN [s EXCEPT !.startTime = timestamp] ELSE s
      timeSince == timestamp - s1.startTime
      s2 == requestAnimationFrame([s1 EXCEPT !.lastTime = timestamp],
                                  "timerTick")
      s3 == [Logged(s2, "timerTick") EXCEPT
               !.levelProgress = timeSince,
               !.mark = IF @.phase = "resumed"
                        THEN [@ EXCEPT !.phase = "sampled",
                                       !.sample = timeSince]
                        ELSE @]
  IN  IF timeSince >= levelTime
      THEN Emit_stop_level(stopTimer(s3))
      ELSE s3

\* function(timestamp) { startTime += timestamp - lastTime; rafID = ... }
resumeTick(s, timestamp) ==
  requestAnimationFrame(
    [s EXCEPT !.startTime = @ + timestamp - s.lastTime], "timerTick")

RECURSIVE RunFrame(_, _)
RunFrame(s, timestamp) ==
  IF s.rafCur = <<>> THEN s
  ELSE LET cb == Head(s.rafCur)
           s1 == [s EXCEPT !.rafCur = Tail(@)]
       IN  RunFrame(IF cb.kind = "timerTick"
                    THEN timerTick(s1, timestamp)
                    ELSE resumeTick(s1, timestamp), timestamp)

----------------------------------------------------------------------------
(* Committing a step *)

RECURSIVE Renumber(_, _)
Renumber(q, n) ==
  IF q = <<>> THEN <<>>
  ELSE <<[id |-> n, kind |-> Head(q).kind]>> \o Renumber(Tail(q), n + 1)

RECURSIVE IndexOfId(_, _, _)
IndexOfId(q, id, n) ==
  IF q = <<>> THEN 0
  ELSE IF Head(q).id = id THEN n
  ELSE IndexOfId(Tail(q), id, n + 1)

\* request ids are opaque: the pending requests are renumbered 1..n and
\* rafID follows its request, or becomes an id that names no pending request
NormalRaf(s) ==
  [s EXCEPT !.rafs = Renumber(s.rafs, 1),
            !.rafID = IF s.rafID = 0 THEN 0
                      ELSE LET i == IndexOfId(s.rafs, s.rafID, 1)
                           IN  IF i = 0 THEN Len(s.rafs) + 1 ELSE i]

WithinBounds(s) ==
  /\ \A m \in Menus : Len(s.animQueue[m]) <= MaxAnim
  /\ s.instrTimers <= MaxInstr
  /\ Len(s.rafs) <= MaxRaf
  /\ s.endTimers <= s.endCap
  /\ s.level <= totalLevels + 1
  /\ s.inputs >= 0
  /\ s.spawns >= 0

Commit(t) ==
  \E s \in {NormalRaf(t)} :
  /\ WithinBounds(s)
  /\ isGameInProgress' = s.isGameInProgress
  /\ isPaused' = s.isPaused
  /\ score' = s.score
  /\ level' = s.level
  /\ levelProgress' = s.levelProgress
  /\ startTime' = s.startTime
  /\ lastTime' = s.lastTime
  /\ rafID' = s.rafID
  /\ rafs' = s.rafs
  /\ now' = s.now
  /\ menuDisplayed' = s.menuDisplayed
  /\ isAnimating' = s.isAnimating
  /\ animQueue' = s.animQueue
  /\ mainMenuTimer' = s.mainMenuTimer
  /\ instrTimers' = s.instrTimers
  /\ pauseButtonOpacity' = s.pauseButtonOpacity
  /\ gaDangerZonePosition' = s.gaDangerZonePosition
  /\ timelineRunning' = s.timelineRunning
  /\ createPending' = s.createPending
  /\ createLive' = s.createLive
  /\ blocks' = s.blocks
  /\ scoreFree' = s.scoreFree
  /\ dangerFree' = s.dangerFree
  /\ endTimers' = s.endTimers
  /\ scoreMade' = s.scoreMade
  /\ dangerMade' = s.dangerMade
  /\ peak' = s.peak
  /\ boot' = s.boot
  /\ hs' = s.hs
  /\ bcLevel' = s.bcLevel
  /\ dangerZonePosition' = s.dangerZonePosition
  /\ lastColumn' = s.lastColumn
  /\ blockSpeed' = s.blockSpeed
  /\ increaseSpeedStep' = s.increaseSpeedStep
  /\ createInterval' = s.createInterval
  /\ isTouch' = s.isTouch
  /\ inputs' = s.inputs
  /\ spawns' = s.spawns
  /\ endCap' = s.endCap
  /\ timerStopped' = s.timerStopped
  /\ levelStopped' = s.levelStopped
  /\ levelAtStop' = s.levelAtStop
  /\ played' = s.played
  /\ mark' = s.mark
  /\ log' = s.log

----------------------------------------------------------------------------
(* Menu click handlers registered in GameController.addMenus *)

MenuItems ==
  [main |-> {"play"},
   pause |-> {"resume", "restart", "main-menu"},
   continue |-> {"continue", "restart", "main-menu"},
   gameOver |-> {"restart", "main-menu"}]

\* restart: reset and restart once the menu is hidden
ClickRestart(s, m) ==
  MenuHide(Emit_action_restart_game(Emit_action_reset_game(s)), m, "restart")

\* main-menu: reset and show the main menu once the menu is hidden
ClickMainMenu(s, m) ==
  MenuHide(Emit_action_go_mainmenu(Emit_action_reset_game(s)), m, "goMain")

OnMenuClick(s, m, item) ==
  IF item = "play"
  THEN MenuHide(Emit_action_start_new_game([s EXCEPT !.played = TRUE]),
                m, "startNew")
  ELSE IF item = "resume" THEN Emit_action_resume_game(s)
  ELSE IF item = "continue" THEN Emit_action_start_next_level(s)
  ELSE IF item = "restart" THEN ClickRestart(s, m)
  ELSE ClickMainMenu(s, m)

\* the opt_callback closures passed to Menu.hide
RunCallback(s, cb) ==
  IF cb = "startNew" THEN Emit_start_new_game(s)
  ELSE IF cb = "resume" THEN Emit_resume_game(s)
  ELSE IF cb = "nextLevel" THEN Emit_start_next_level(s)
  ELSE IF cb = "restart" THEN Emit_restart_game(Emit_reset_game(s))
  ELSE IF cb = "goMain" THEN MenuShow(Emit_reset_game(s), "main")
  ELSE s

\* the callback option of canvasObject.animate in Menu.show and Menu.hide
AnimCallback(s, m) ==
  LET cb == Head(s.animQueue[m])
      s1 == [s EXCEPT !.animQueue[m] = Tail(@)]
      s2 == IF cb = "show"
            THEN [s1 EXCEPT !.isAnimating[m] = FALSE]
            ELSE [s1 EXCEPT !.menuDisplayed[m] = FALSE,
                            !.isAnimating[m] = FALSE]
  IN  RunCallback(s2, cb)

\* Dashboard 'click-pause-resume'
OnClickPauseResume(s) ==
  IF ~s.isGameInProgress THEN Emit_action_start_next_level(s)
  ELSE IF s.isPaused THEN Emit_action_resume_game(s)
  ELSE Emit_pause_game(s)

\* stage keydown with event.which = 80
OnKeyP(s) ==
  IF s.isGameInProgress
  THEN IF s.isPaused THEN Emit_action_resume_game(s) ELSE Emit_pause_game(s)
  ELSE s

----------------------------------------------------------------------------
(* Actions: one browser task each *)

\* a user input is counted
Input(s) == [s EXCEPT !.inputs = @ - 1]

\* a click or tap on an item of menu m
MenuClick(m, item) ==
  /\ menuDisplayed[m]
  /\ ~isAnimating[m]
  /\ Commit(OnMenuClick(Input(State), m, item))

\* a key press of 'p'
KeyP ==
  /\ inputs > 0
  /\ Commit(OnKeyP(Input(State)))

\* a click or tap on the dashboard pause button
DashboardClick ==
  /\ inputs > 0
  /\ Commit(OnClickPauseResume(Input(State)))

\* the animation at the head of menu m's queue ends
AnimDone(m) ==
  /\ animQueue[m] # <<>>
  /\ Commit(AnimCallback(State, m))

\* initializeGame that does not look at this.canvas
initializeGame_NoCanvasCheck(s) ==
  [s EXCEPT !.boot.phase = "initialized", !.mainMenuTimer = TRUE]

\* initializeGame: throws when there is no canvas, otherwise registers the
\* handlers and sets the timeout that shows the main menu
initializeGame(s) ==
  IF ~s.boot.canvas
  THEN [s EXCEPT !.boot.phase = "failed"]
  ELSE [s EXCEPT !.boot.phase = "initialized", !.mainMenuTimer = TRUE]

\* initializeGame: setTimeout(function() { mainMenu.show(stage) }, 1000)
MainMenuTimeout ==
  /\ mainMenuTimer
  /\ Commit(MenuShow([State EXCEPT !.mainMenuTimer = FALSE], "main"))

\* the instructions are hidden and 'initiate-gameplay' is emitted
InstructionsDone ==
  /\ instrTimers > 0
  /\ Commit(Emit_initiate_gameplay([State EXCEPT !.instrTimers = @ - 1]))

\* one animation frame: every pending request runs with the frame timestamp
Frame ==
  /\ now < MaxTime
  /\ Commit(RunFrame([State EXCEPT !.rafCur = rafs, !.rafs = <<>>,
                                   !.now = now + 1], now + 1))

\* a press (mousedown, touchstart) on the i-th active block
BlockClick(i) ==
  /\ i \in 1..Len(blocks)
  /\ Commit(onClick(Input(State), blocks[i]))

\* stage.setLoop: one tick of the running timeline
GameTick ==
  /\ timelineRunning
  /\ blocks # <<>>
  /\ Commit(gameTick(State))

\* a spawn timeout fires: either objectCreateTimer (latest) or an older one
\* that was never cleared; it sets the next timeout and adds a block
CreateTimeout(latest, r, column, pick) ==
  /\ createPending > 0
  /\ IF latest THEN createLive ELSE createPending > (IF createLive THEN 1 ELSE 0)
  /\ ~drawAgain(column, lastColumn)
  /\ LET s0 == [State EXCEPT !.createPending = @ - 1]
     IN  Commit(addBlock(startCreateTimer(s0), r, column, pick))

\* the timeout set by endLevel fires
\* any pending spawn timeout, with the random draws of addBlock
CreateTimeouts ==
  /\ createPending > 0
  /\ \E latest \in BOOLEAN, r \in 0..10, column \in 1..numColumns :
       \E pick \in 1..Max(1, Len(IF (r % 6) # 0 THEN scoreFree
                                                ELSE dangerFree)) :
         CreateTimeout(latest, r, column, pick)

EndLevelTimeout ==
  /\ endTimers > 0
  /\ Commit(endLevelTimeout([State EXCEPT !.endTimers = @ - 1]))

\* the move at the head of a block's animation queue ends
FallDone(i) ==
  /\ i \in 1..Len(blocks)
  /\ blocks[i].fall # <<>>
  /\ Commit([State EXCEPT !.blocks[i].y = Head(blocks[i].fall),
                          !.blocks[i].fall = Tail(@)])

\* the fields the HighScoreMenu constructor sets, with the requests and
\* timeouts of the menu, none at first:
\*   loaded, data  highScoreData (null until loaded)
\*   loading       highScoreDataLoading
\*   loads         load requests in flight
\*   loadTimers    pending timeouts of getHighScores
\*   chains        per call of saveHighScore from an input handler, the
\*                 items sent so far (the first send and its retries) and
\*                 whether a request is in flight, a timeout pending, or the
\*                 save done
\*   made          items made by setScore
\*   calls, fails  calls from outside and failing answers left in this run
NewHighScoreMenu ==
  [loaded |-> FALSE, data |-> <<>>, loading |-> FALSE,
   loads |-> 0, loadTimers |-> 0,
   newHighScoreIndex |-> 0, waitingForRealInput |-> FALSE,
   realInputVisible |-> FALSE,
   chains |-> <<>>, made |-> 0,
   calls |-> MaxScoreCalls, fails |-> MaxScoreFails]

\* the state the constructors leave, for the input profile isTouch, but for
\* controller.canvas and what initializeGame does
Created ==
  /\ isGameInProgress = FALSE
  /\ isPaused = FALSE
  /\ score = 0
  /\ level = 1
  /\ levelProgress = 0
  /\ startTime = 0
  /\ lastTime = 0
  /\ rafID = 0
  /\ rafs = <<>>
  /\ now = 0
  /\ menuDisplayed = [m \in Menus |-> FALSE]
  /\ isAnimating = [m \in Menus |-> FALSE]
  /\ animQueue = [m \in Menus |-> <<>>]
  /\ instrTimers = 0
  /\ pauseButtonOpacity = 0
  /\ gaDangerZonePosition = stageHeight - dangerZoneStepSize
  /\ timelineRunning = FALSE
  /\ createPending = 0
  /\ createLive = FALSE
  /\ blocks = <<>>
  /\ scoreFree = [i \in 1..PoolSize |-> i]
  /\ dangerFree = [i \in 1..PoolSize |-> i]
  /\ endTimers = 0
  /\ scoreMade = PoolSize
  /\ dangerMade = PoolSize
  /\ peak = [score |-> 0, danger |-> 0]
  /\ bcLevel = 1
  /\ dangerZonePosition = 0
  /\ lastColumn = 1
  /\ blockSpeed = SpeedUnit * initialBlockSpeedConst
  /\ increaseSpeedStep = 0
  /\ createInterval = initialCreateInterval(isTouch)
  /\ timerStopped = FALSE
  /\ levelStopped = FALSE
  /\ levelAtStop = 0
  /\ played = FALSE
  /\ mark = NoMark
  /\ hs = NewHighScoreMenu
  /\ log = <<>>

\* controller.canvas is set and initializeGame has returned
Booted == [canvas |-> TRUE, phase |-> "initialized"]

\* the state initializeGame leaves: the handlers are registered and the
\* timeout that shows the main menu is pending
Constructed ==
  /\ Created
  /\ mainMenuTimer = TRUE
  /\ boot = Booted

Init ==
  /\ isTouch = FALSE
  /\ inputs = MaxInputs
  /\ spawns = MaxSpawns
  /\ endCap = MaxEnd
  /\ Constructed

\* the steps of a session once the main menu's timeout has fired
Session ==
  \/ \E m \in Menus : \E item \in MenuItems[m] : MenuClick(m, item)
  \/ KeyP
  \/ DashboardClick
  \/ \E m \in Menus : AnimDone(m)
  \/ InstructionsDone
  \/ Frame
  \/ \E i \in 1..MaxSpawns : BlockClick(i)
  \/ GameTick
  \/ CreateTimeouts
  \/ EndLevelTimeout
  \/ \E i \in 1..MaxSpawns : FallDone(i)

Next ==
  \/ MainMenuTimeout
  \/ Session

Spec == Init /\ [][Next]_vars

\* The state right after 'initiate-gameplay' of a new game started with the
\* 'play' item: level 1 is being played, nothing has been sampled yet.
PlayState ==
  /\ isGameInProgress = TRUE
  /\ isPaused = FALSE
  /\ score = 0
  /\ level = 1
  /\ levelProgress = 0
  /\ startTime = 0
  /\ lastTime = 0
  /\ rafID = 1
  /\ rafs = <<[id |-> 1, kind |-> "timerTick"]>>
  /\ now = 0
  /\ menuDisplayed = [m \in Menus |-> FALSE]
  /\ isAnimating = [m \in Menus |-> FALSE]
  /\ animQueue = [m \in Menus |-> <<>>]
  /\ mainMenuTimer = FALSE
  /\ boot = Booted
  /\ instrTimers = 0
  /\ pauseButtonOpacity = 1
  /\ gaDangerZonePosition = stageHeight - dangerZoneStepSize
  /\ timelineRunning = TRUE
  /\ createPending = 1
  /\ createLive = TRUE
  /\ blocks = <<>>
  /\ scoreFree = [i \in 1..PoolSize |-> i]
  /\ dangerFree = [i \in 1..PoolSize |-> i]
  /\ endTimers = 0
  /\ scoreMade = PoolSize
  /\ dangerMade = PoolSize
  /\ peak = [score |-> 0, danger |-> 0]
  /\ bcLevel = 1
  /\ dangerZonePosition = stageHeight - dangerZoneStepSize
  /\ lastColumn = 1
  /\ isTouch = FALSE
  /\ blockSpeed = SpeedUnit * initialBlockSpeedConst + 24
  /\ increaseSpeedStep = 0
  /\ createInterval = initialCreateInterval(isTouch)
  /\ timerStopped = FALSE
  /\ levelStopped = FALSE
  /\ levelAtStop = 0
  /\ played = TRUE
  /\ mark = NoMark
  /\ hs = NewHighScoreMenu
  /\ log = <<>>

InitPlay ==
  PlayState /\ inputs = MaxInputs /\ spawns = MaxSpawns /\ endCap = MaxEnd

SpecPlay == InitPlay /\ [][Session]_vars

\* The block controller on its own, for either input profile: levels are
\* started through setLevel, setDangerZonePosition and startGame as the
\* handlers of 'start-new-game' and 'initiate-gameplay' do, with any level
\* up to MaxLevel, on an empty board, and the danger zone placed where a
\* block falling at the level's initial speed arrives after exactly k ticks.
LevelStart(lv, k) ==
  /\ inputs > 0
  /\ blocks = <<>>
  /\ LET s == setLevel(Input(State), lv)
         position == k * s.blockSpeed - blockSize
     IN  Commit(startGame(setDangerZonePosition(s, position)))

InitBlocks ==
  /\ isTouch \in BOOLEAN
  /\ inputs = MaxBlockInputs
  /\ spawns = MaxBlockSpawns
  /\ endCap = MaxEnd
  /\ Constructed

BlocksOnly ==
  \/ \E lv \in 1..MaxLevel, k \in 1..MaxThresholdTicks : LevelStart(lv, k)
  \/ \E i \in 1..MaxBlockSpawns : BlockClick(i)
  \/ GameTick
  \/ CreateTimeouts

SpecBlocks == InitBlocks /\ [][BlocksOnly]_vars

\* The block controller in one level in which no entity is clicked and the
\* danger zone lies one tick of fall below the spawn point, so that every
\* entity has left the board long before the next spawn timeout (700 ms or
\* more later) fires.
InitMiss ==
  /\ isTouch \in BOOLEAN
  /\ inputs = MaxMissInputs
  /\ spawns = MaxMissSpawns
  /\ endCap = MaxEnd
  /\ Constructed

SpawnOnEmptyBoard ==
  /\ blocks = <<>>
  /\ CreateTimeouts

MissOnly ==
  \/ \E lv \in 1..MaxLevel : LevelStart(lv, 1)
  \/ SpawnOnEmptyBoard
  \/ GameTick

SpecMiss == InitMiss /\ [][MissOnly]_vars

\* The block controller when setLevel is also called on its own, with
\* entities active.
SetLevel(lv) ==
  /\ inputs > 0
  /\ Commit(setLevel(Input(State), lv))

InitLevel ==
  /\ isTouch \in BOOLEAN
  /\ inputs = MaxBlockInputs
  /\ spawns = MaxLevelSpawns
  /\ endCap = MaxEnd
  /\ Constructed

LevelOnly ==
  \/ \E lv \in 1..MaxLevel, k \in 1..MaxThresholdTicks : LevelStart(lv, k)
  \/ \E i \in 1..MaxBlockSpawns : BlockClick(i)
  \/ GameTick
  \/ CreateTimeouts
  \/ \E lv \in 1..MaxLevel : SetLevel(lv)

SpecLevel == InitLevel /\ [][LevelOnly]_vars

\* The block controller with the ends of levels, mouse profile: the handlers
\* of 'stop-level', 'action:reset-game' and 'resume-game' call stopGame,
\* endLevel and startGame at any time.  The falls that endLevel starts stay
\* queued: where a block is drawn does not matter to what is active.
StopLevel ==
  /\ endTimers < endCap
  /\ Commit(endLevel(stopGame(State)))

ResetGame ==
  /\ endTimers < endCap
  /\ Commit(endLevel(State))

ResumeGame ==
  /\ ~timelineRunning
  /\ Commit(startGame(State))

InitClear ==
  /\ isTouch = FALSE
  /\ inputs = MaxClearInputs
  /\ spawns = MaxBlockSpawns
  /\ endCap = MaxClearEnd
  /\ Constructed

ClearOnly ==
  \/ \E lv \in 1..totalLevels, k \in 1..MaxThresholdTicks : LevelStart(lv, k)
  \/ \E i \in 1..MaxBlockSpawns : BlockClick(i)
  \/ GameTick
  \/ CreateTimeouts
  \/ StopLevel
  \/ ResetGame
  \/ ResumeGame
  \/ EndLevelTimeout

SpecClear == InitClear /\ [][ClearOnly]_vars

\* The same when a timeout that endLevel has set fires.
SpecClearLive == InitClear /\ [][ClearOnly]_vars /\ WF_vars(EndLevelTimeout)

\* The block controller when removeBlock is also called for an entity that
\* has been retired: one that lies in the free list of its pool.
RemoveRetired(kind, id) ==
  /\ inputs > 0
  /\ \E i \in 1..Len(IF kind = "score" THEN scoreFree ELSE dangerFree) :
       (IF kind = "score" THEN scoreFree ELSE dangerFree)[i] = id
  /\ Commit(removeBlock(Input(State),
                        [kind |-> kind, id |-> id, y |-> 0, fall |-> <<>>],
                        Undefined))

RetireOnly ==
  \/ \E lv \in 1..totalLevels, k \in 1..MaxThresholdTicks : LevelStart(lv, k)
  \/ \E i \in 1..MaxBlockSpawns : BlockClick(i)
  \/ GameTick
  \/ CreateTimeouts
  \/ \E kind \in {"score", "danger"}, id \in 1..(PoolSize + MaxBlockSpawns) :
       RemoveRetired(kind, id)

SpecRetire == InitClear /\ [][RetireOnly]_vars

\* The same session when no spawn timeout fires during the run: the active
\* set stays empty and more inputs fit in a run.
InitSession ==
  PlayState /\ inputs = MaxSessionInputs /\ spawns = 0 /\ endCap = MaxEnd

SessionOnly ==
  \/ \E m \in Menus : \E item \in MenuItems[m] : MenuClick(m, item)
  \/ KeyP
  \/ DashboardClick
  \/ \E m \in Menus : AnimDone(m)
  \/ InstructionsDone
  \/ Frame
  \/ EndLevelTimeout

SpecSession == InitSession /\ [][SessionOnly]_vars

\* The same session with its timers and animations running to their end:
\* an animation that has started ends, a timeout that is set fires and a
\* requested animation frame comes.
InitLive ==
  PlayState /\ inputs = MaxLiveInputs /\ spawns = 0 /\ endCap = MaxEnd

\* the steps that need no user
SessionTimers ==
  \/ \E m \in Menus : AnimDone(m)
  \/ InstructionsDone
  \/ EndLevelTimeout
  \/ Frame

SpecLive == InitLive /\ [][SessionOnly]_vars /\ WF_vars(SessionTimers)

\* The session from the loaded page when no spawn timeout fires during the
\* run.
InitStart ==
  /\ isTouch = FALSE
  /\ inputs = MaxSessionInputs
  /\ spawns = 0
  /\ endCap = MaxEnd
  /\ Constructed

StartOnly ==
  \/ MainMenuTimeout
  \/ SessionOnly

SpecStart == InitStart /\ [][StartOnly]_vars

\* The page's script from the new GameController on: it may set
\* controller.canvas, and calls initializeGame once; an error thrown there
\* ends the script.  The handlers of the session exist once initializeGame
\* has returned.
SetCanvas ==
  /\ boot.phase = "new"
  /\ ~boot.canvas
  /\ Commit([State EXCEPT !.boot.canvas = TRUE])

InitializeGame ==
  /\ boot.phase = "new"
  /\ Commit(initializeGame(State))

InitBoot ==
  /\ isTouch = FALSE
  /\ inputs = MaxBootInputs
  /\ spawns = 0
  /\ endCap = MaxEnd
  /\ Created
  /\ mainMenuTimer = FALSE
  /\ boot = [canvas |-> FALSE, phase |-> "new"]

BootOnly ==
  \/ SetCanvas
  \/ InitializeGame
  \/ boot.phase = "initialized" /\ StartOnly

SpecBoot == InitBoot /\ [][BootOnly]_vars

----------------------------------------------------------------------------
(* HighScoreMenu: loading the list, placing a new score, saving it.  The    *)
(* callers of getHighScores and setScore are not part of the menu: they are *)
(* calls from outside, at any moment.                                       *)

\* what the load endpoint may answer: the high score lists of the server
ServerLists == {<<>>, <<[id |-> 0, score |-> 2]>>}

\* the scores setScore is called with
FinalScores == {1, 3}

\* getHighScores: nothing while highScoreDataLoading, otherwise a request
getHighScores(s) ==
  IF s.hs.loading THEN s
  ELSE [s EXCEPT !.hs.loading = TRUE, !.hs.loads = @ + 1]

\* the callback of json.load
loadCallback(s, error, data) ==
  IF error
  THEN [s EXCEPT !.hs.loads = @ - 1, !.hs.loadTimers = @ + 1,
                 !.hs.fails = @ - 1]
  ELSE [s EXCEPT !.hs.loads = @ - 1, !.hs.loading = FALSE,
                 !.hs.loaded = TRUE, !.hs.data = data]

\* setTimeout(function() { self.getHighScores(); }, 1000)
loadRetry(s) == getHighScores([s EXCEPT !.hs.loadTimers = @ - 1])

\* the index setScore's loop finds, highScoreCount when it finds none
RECURSIVE PlaceOf(_, _, _)
PlaceOf(items, final, i) ==
  IF i >= highScoreCount THEN highScoreCount
  ELSE IF i >= Len(items) \/ items[i + 1].score < final THEN i
  ELSE PlaceOf(items, final, i + 1)

\* setScore(score)
setScore(s, final) ==
  IF ~s.hs.loaded THEN s
  ELSE LET index == PlaceOf(s.hs.data, final, 0)
           item == [id |-> s.hs.made + 1, score |-> final]
       IN  IF index = highScoreCount THEN s
           ELSE [s EXCEPT !.hs.data = SubSeq(@, 1, index) \o <<item>>
                                        \o SubSeq(@, index + 1, Len(@)),
                          !.hs.made = @ + 1,
                          !.hs.waitingForRealInput = TRUE,
                          !.hs.newHighScoreIndex = index]

\* the 'show' handler: switchToRealInput
menuShown(s) ==
  IF s.hs.waitingForRealInput
  THEN [s EXCEPT !.hs.realInputVisible = TRUE,
                 !.hs.waitingForRealInput = FALSE]
  ELSE s

\* saveHighScore called with no argument
NoItem == [id |-> -1, score |-> 0]

\* json.save(serverPathSave, dataItem, ...) of chain c, a new chain when
\* c is 0
sendSave(s, dataItem, c) ==
  IF c = 0
  THEN [s EXCEPT !.hs.chains =
                    Append(@, [sent |-> <<dataItem>>, phase |-> "flight"])]
  ELSE [s EXCEPT !.hs.chains[c].sent = Append(@, dataItem),
                 !.hs.chains[c].phase = "flight"]

\* saveHighScore(opt_data)
saveHighScore(s, opt_data, c) ==
  LET dataItem == IF opt_data = NoItem
                  THEN s.hs.data[s.hs.newHighScoreIndex + 1]
                  ELSE opt_data
  IN  sendSave(s, dataItem, c)

\* the timeout of a failed save calling saveHighScore() with no argument
saveRetry_Reread(s, c) == saveHighScore(s, NoItem, c)

\* setTimeout(function() { self.saveHighScore(dataItem); }, 1000)
saveRetry(s, c) ==
  LET sent == s.hs.chains[c].sent
  IN  saveHighScore(s, sent[Len(sent)], c)

\* the callback of json.save
saveCallback(s, c, error) ==
  IF error
  THEN [s EXCEPT !.hs.chains[c].phase = "timer", !.hs.fails = @ - 1]
  ELSE [s EXCEPT !.hs.chains[c].phase = "done"]

\* the input's keydown (enter) and blur handlers: switchToFakeInput, whose
\* dataItem.name = name throws when there is no item at newHighScoreIndex,
\* then saveHighScore().  Enter on a name that is not empty saves twice:
\* hideRealInput blurs the input, and the blur handler saves as well.
inputDone(s, saves) ==
  LET s1 == [s EXCEPT !.hs.realInputVisible = FALSE]
  IN  IF s.hs.newHighScoreIndex + 1 > Len(s.hs.data) THEN s1
      ELSE IF saves = 1 THEN saveHighScore(s1, NoItem, 0)
      ELSE saveHighScore(saveHighScore(s1, NoItem, 0), NoItem, 0)

GetHighScores ==
  /\ hs.calls > 0
  /\ Commit(getHighScores([State EXCEPT !.hs.calls = @ - 1]))

LoadAnswer ==
  /\ hs.loads > 0
  /\ \/ hs.fails > 0 /\ Commit(loadCallback(State, TRUE, <<>>))
     \/ \E data \in ServerLists : Commit(loadCallback(State, FALSE, data))

LoadRetryTimeout ==
  /\ hs.loadTimers > 0
  /\ Commit(loadRetry(State))

SetScore ==
  /\ hs.calls > 0
  /\ \E final \in FinalScores :
       Commit(setScore([State EXCEPT !.hs.calls = @ - 1], final))

MenuShown ==
  /\ hs.waitingForRealInput
  /\ Commit(menuShown(State))

InputDone ==
  /\ hs.realInputVisible
  /\ \E saves \in 1..2 :
       /\ Len(hs.chains) + saves <= MaxChains
       /\ Commit(inputDone(State, saves))

SaveAnswer ==
  \E c \in 1..Len(hs.chains) :
    /\ hs.chains[c].phase = "flight"
    /\ \/ hs.fails > 0 /\ Commit(saveCallback(State, c, TRUE))
       \/ Commit(saveCallback(State, c, FALSE))

SaveRetryTimeout ==
  \E c \in 1..Len(hs.chains) :
    /\ hs.chains[c].phase = "timer"
    /\ Commit(saveRetry(State, c))

InitScores ==
  /\ isTouch = FALSE
  /\ inputs = 0
  /\ spawns = 0
  /\ endCap = MaxEnd
  /\ Constructed

ScoresOnly ==
  \/ GetHighScores
  \/ LoadAnswer
  \/ LoadRetryTimeout
  \/ SetScore
  \/ MenuShown
  \/ InputDone
  \/ SaveAnswer
  \/ SaveRetryTimeout

SpecScores == InitScores /\ [][ScoresOnly]_vars

\* the timeouts of failed saves fire
SpecScoresFair ==
  InitScores /\ [][ScoresOnly]_vars /\ WF_vars(SaveRetryTimeout)

----------------------------------------------------------------------------
(* Observations over one step.  log holds, in order, what the last step     *)
(* emitted on the game's event emitter, plus "timerTick" for each timer     *)
(* sample and "gameTick" for each simulator tick.                           *)

Emitted(l, e) == \E i \in 1..Len(l) : l[i] = e

Count(l, e) == Cardinality({i \in 1..Len(l) : l[i] = e})

AnyMenuAnimating == \E m \in Menus : isAnimating[m]

\* Playing: a level is in progress, not paused, the timer has a sample
\* scheduled and the simulator runs
Playing ==
  /\ isGameInProgress
  /\ ~isPaused
  /\ \E i \in 1..Len(rafs) : rafs[i].id = rafID
  /\ timelineRunning

SessionUnchanged ==
  UNCHANGED <<isGameInProgress, isPaused, score, level, levelProgress,
              startTime, lastTime, rafID, rafs, menuDisplayed, isAnimating,
              animQueue, timelineRunning, createPending, createLive>>

----------------------------------------------------------------------------
(* Claims *)

\* C1: while isPaused holds, no step runs a gameTick advance and no step
\* spawns a block.
C1_PausedFreezesSimulation ==
  [][isPaused => (~Emitted(log', "gameTick") /\ spawns' = spawns)]_vars

\* C2: across 'pause-game' then 'resume-game', the first progress sampled
\* after the resume is never less than the progress at the pause.
C2_ResumeKeepsProgress ==
  mark.phase = "sampled" => mark.sample >= mark.progress

\* C3: after stopTimer, and until startTimer or resumeTimer, no scheduled
\* timer tick remains that would update levelProgress or emit 'stop-level'.
C3_StopTimerCancelsTicks == timerStopped => rafs = <<>>

\* C4: while a menu show/hide animation is in flight, a user input (menu
\* item, 'p' key, dashboard button) emits nothing and changes no session
\* state.
C4_InputIgnoredWhileAnimating ==
  [][(AnyMenuAnimating /\ inputs' # inputs /\ spawns' = spawns
        /\ ~Emitted(log', "scoreblock-click")
        /\ ~Emitted(log', "dangerblock-click"))
       => (log' = <<>> /\ SessionUnchanged)]_vars

\* C5: 'pause-game' is emitted only from Playing.
C5_PauseOnlyWhilePlaying ==
  [][Emitted(log', "pause-game") => Playing]_vars

\* C6: score is never negative, and a 'score-decrease' by more than the
\* current score leaves it at exactly 0.
C6_ScoreClampedAtZero ==
  /\ [](score >= 0)
  /\ [][(Emitted(log', "score-decrease")
           /\ score + dangerBlockScore(isTouch) < 0) => score' = 0]_vars

C6_Witness == Emitted(log, "score-decrease") /\ score = 0

\* C7: once the 'play' item started a session, 1 <= level <= totalLevels.
C7_LevelInRange == played => (1 <= level /\ level <= totalLevels)

\* C8: from one 'stop-level' to the next with no reset in between, level
\* grows by exactly 1, and levelProgress is 0 when 'start-next-level' is
\* emitted.
C8_LevelStepsByOne ==
  [][/\ (Emitted(log', "stop-level") /\ levelAtStop # 0
           /\ ~Emitted(log', "action:reset-game"))
         => (Count(log', "stop-level") = 1 /\ level' = levelAtStop + 1)
     /\ (Emitted(log', "start-next-level") /\ ~Emitted(log', "timerTick"))
         => levelProgress' = 0]_vars

\* C9: a step that emits 'stop-level' ends with isGameInProgress false and
\* shows exactly one menu: game-over on the last level, continue otherwise.
C9_StopLevelShowsOneMenu ==
  [][Emitted(log', "stop-level") =>
       /\ ~isGameInProgress'
       /\ {m \in Menus : Len(animQueue'[m]) > Len(animQueue[m])}
            = {IF level = totalLevels THEN "gameOver" ELSE "continue"}
       /\ \A m \in Menus : Len(animQueue'[m]) > Len(animQueue[m])
            => /\ animQueue'[m][Len(animQueue'[m])] = "show"
               /\ menuDisplayed'[m]]_vars

C9_Witness ==
  /\ Emitted(log, "stop-level")
  /\ played
  /\ level = totalLevels
  /\ menuDisplayed["gameOver"]
  /\ ~menuDisplayed["continue"]

\* C10: in a level run 'stop-level' is emitted exactly once, on the first
\* sample with progress >= 1, and no sample is taken after it until the
\* next start.
C10_StopLevelOncePerRun ==
  [][/\ Count(log', "stop-level") <= 1
     /\ Emitted(log', "stop-level") => ~levelStopped
     /\ (levelStopped /\ levelStopped') => ~Emitted(log', "timerTick")
     /\ (Emitted(log', "timerTick") /\ levelProgress' >= levelTime)
          => Emitted(log', "stop-level")]_vars

\* C11: a timer sample is never below the previous value of levelProgress,
\* and levelProgress returns to 0 only in a step that calls startTimer,
\* resetTimer or the reset.
C11_ProgressMonotonic ==
  [][/\ Emitted(log', "timerTick") => levelProgress' >= levelProgress
     /\ (levelProgress # 0 /\ levelProgress' = 0)
          => \/ Emitted(log', "initiate-gameplay")
             \/ Emitted(log', "start-next-level")
             \/ Emitted(log', "action:start-next-level")
             \/ Emitted(log', "action:reset-game")]_vars

\* C12: a step that emits 'action:reset-game' ends with score 0, level 1,
\* levelProgress 0, isPaused and isGameInProgress false and no timer tick
\* scheduled.
C12_ResetRestoresSession ==
  [][Emitted(log', "action:reset-game") =>
       /\ score' = 0
       /\ level' = 1
       /\ levelProgress' = 0
       /\ ~isPaused'
       /\ ~isGameInProgress'
       /\ rafs' = <<>>]_vars

\* C13: when 'start-new-game' is emitted, and when the 'initiate-gameplay'
\* that follows it starts play, score = 0 and level = 1.
C13_NewGameStartsReset ==
  [][(Emitted(log', "start-new-game") \/ Emitted(log', "initiate-gameplay"))
       => (score' = 0 /\ level' = 1)]_vars

----------------------------------------------------------------------------
(* The block controller *)

\* the maximum an unforced increaseBlockSpeed applies at the current level
levelCeiling ==
  IF bcLevel < 5 THEN (2 * maxBlockSpeed(isTouch)) \div 3
  ELSE maxBlockSpeed(isTouch)

\* the step is a score click whose speed-up step is due
SpeedUpClick ==
  /\ Emitted(log', "scoreblock-click")
  /\ increaseSpeedStep + 1 = increaseSpeedEvery

\* C14: in every reachable state blockSpeed is at most the level-dependent
\* ceiling: maxBlockSpeed / 1.5 while the level is below 5, maxBlockSpeed
\* from level 5 on.
C14_SpeedBelowCeiling == blockSpeed <= levelCeiling

\* C14, amended: blockSpeed never exceeds the forced maximum of 10; right
\* after setLevel it is at most maxBlockSpeed, and right after the speed-up
\* step of a score click it is at most the level-dependent ceiling.
C14_SpeedBelowForcedMax ==
  [][/\ blockSpeed' <= SpeedUnit * 10
     /\ Emitted(log', "setLevel") => blockSpeed' <= maxBlockSpeed(isTouch)
     /\ SpeedUpClick => blockSpeed' <= levelCeiling']_vars

\* a score block has reached the danger zone and the forced increase has
\* taken the speed above the level's ceiling
C14_Witness ==
  /\ Emitted(log, "scoreblock-reach-end")
  /\ blockSpeed > levelCeiling
  /\ blockSpeed <= SpeedUnit * 10

\* C15: between two calls of setLevel blockSpeed never decreases, whatever
\* score clicks, danger clicks and threshold crossings happen.
C15_SpeedNeverDecreases ==
  [][~Emitted(log', "setLevel") => blockSpeed' >= blockSpeed]_vars

\* the minimum onClick applies to createInterval at the current level
intervalFloor ==
  IntervalUnit * (IF isTouch THEN 500 - bcLevel * 20 ELSE 700 - bcLevel * 10)

\* C16: between two calls of setLevel createInterval never increases; it is
\* never below the level's floor (700 - 10 * level, 500 - 20 * level on
\* touch) and it is positive, for every level in 1..MaxLevel.
C16_IntervalShrinksToFloor ==
  [][/\ ~Emitted(log', "setLevel") => createInterval' <= createInterval
     /\ createInterval' >= intervalFloor'
     /\ createInterval' > 0]_vars

\* a score click has brought createInterval down to the level's floor
C16_Witness ==
  /\ Emitted(log, "scoreblock-click")
  /\ createInterval = intervalFloor
  /\ createInterval < initialCreateInterval(isTouch)

\* C17: the column of each spawned entity is in 1..numColumns and differs
\* from the column of the spawn before it, whatever happened in between.
C17_ColumnDiffersFromLast ==
  [][spawns' # spawns =>
       (lastColumn' \in 1..numColumns /\ lastColumn' # lastColumn)]_vars

\* two entities were spawned one after the other, the second in column 1
\* where the first cannot have been
C17_Witness ==
  /\ spawns = MaxBlockSpawns - 2
  /\ Len(blocks) = 2
  /\ lastColumn = 1

\* the entity is the same as the one at some place of q
ActiveIn(q, b) == \E j \in 1..Len(q) : q[j].kind = b.kind /\ q[j].id = b.id

\* the places of the active entities of a variant that the tick about to run
\* takes strictly beyond dangerZonePosition
Crossing(kind) ==
  {i \in 1..Len(blocks) : /\ blocks[i].kind = kind
                          /\ blocks[i].y + blockSpeed > dangerZonePosition}

\* C18: a gameTick retires exactly the active entities whose position after
\* the tick is strictly greater than dangerZonePosition, one at the
\* threshold stays, and one reach-end event of the variant is emitted for
\* each retired entity.
C18_RetiredStrictlyBeyond ==
  [][Emitted(log', "gameTick") =>
       /\ \A i \in 1..Len(blocks) :
            (blocks[i].y + blockSpeed > dangerZonePosition)
              <=> ~ActiveIn(blocks', blocks[i])
       /\ Count(log', "scoreblock-reach-end") = Cardinality(Crossing("score"))
       /\ Count(log', "dangerblock-reach-end")
            = Cardinality(Crossing("danger"))]_vars

\* a tick has retired one entity and left another one exactly at the
\* threshold
C18_Witness ==
  /\ Emitted(log, "gameTick")
  /\ Emitted(log, "scoreblock-reach-end") \/ Emitted(log, "dangerblock-reach-end")
  /\ \E i \in 1..Len(blocks) : blocks[i].y = dangerZonePosition

\* C19: a gameTick advances every entity active at its start exactly once
\* and leaves active exactly those whose position is at most the threshold,
\* in their original order.
C19_TickVisitsEachOnce ==
  [][Emitted(log', "gameTick") =>
       LET moved == [i \in 1..Len(blocks) |->
                       [blocks[i] EXCEPT !.y = @ + blockSpeed]]
           Stays(b) == b.y <= dangerZonePosition
       IN  blocks' = SelectSeq(moved, Stays)]_vars

\* a tick has retired two entities in one scan and the entity behind them
\* is still active
C19_Witness ==
  /\ Emitted(log, "gameTick")
  /\ Count(log, "scoreblock-reach-end") + Count(log, "dangerblock-reach-end") >= 2
  /\ blocks # <<>>

\* the step is a press on the i-th active entity, of the given variant
ClickOn(i, kind, event, other) ==
  /\ blocks[i].kind = kind
  /\ Count(log', event) = 1
  /\ Count(log', other) = 0
  /\ blocks' = SubSeq(blocks, 1, i - 1) \o SubSeq(blocks, i + 1, Len(blocks))

\* C20: a press on an active entity emits exactly one click event of its
\* variant, removes exactly that entity, returns it to the pool of its
\* variant in the same step and leaves every other active entity in place.
C20_ClickRemovesThatEntity ==
  [][(Emitted(log', "scoreblock-click") \/ Emitted(log', "dangerblock-click"))
       => \E i \in 1..Len(blocks) :
            \/ /\ ClickOn(i, "score", "scoreblock-click", "dangerblock-click")
               /\ scoreFree' = Append(scoreFree, blocks[i].id)
               /\ dangerFree' = dangerFree
            \/ /\ ClickOn(i, "danger", "dangerblock-click", "scoreblock-click")
               /\ dangerFree' = Append(dangerFree, blocks[i].id)
               /\ scoreFree' = scoreFree]_vars

\* one of three active entities was pressed and the two others are still
\* active
C20_Witness ==
  /\ Emitted(log, "scoreblock-click") \/ Emitted(log, "dangerblock-click")
  /\ Len(blocks) = 2
  /\ spawns = 0

\* the entities of a variant in the active set, in order
ActiveIds(kind) ==
  LET OfKind(b) == b.kind = kind
      sel == SelectSeq(blocks, OfKind)
  IN  [i \in 1..Len(sel) |-> sel[i].id]

\* no value is at two places of q
NoRepeat(q) == \A i, j \in 1..Len(q) : q[i] = q[j] => i = j

\* C21: no entity is twice in the active set and no active entity is in
\* the free list of its pool.
C21_ActiveAndFreeDisjoint ==
  /\ NoRepeat(ActiveIds("score") \o scoreFree)
  /\ NoRepeat(ActiveIds("danger") \o dangerFree)

\* score entity 1 is active behind score entity 2, which the pool created
\* while 1 was handed out: 1 was put back and handed out again
C21_Witness ==
  /\ ActiveIds("score") = <<2, 1>>
  /\ scoreFree = <<>>

C23_OneSpawnTimer ==
  [][/\ createPending' <= 1
     /\ ~timelineRunning' => createPending' = 0
     /\ (timelineRunning /\ Emitted(log', "setLevel"))
          => (timelineRunning' /\ createPending' = createPending)
     /\ (~timelineRunning /\ endTimers' = endTimers + 1)
          => (~timelineRunning' /\ createPending' = createPending)]_vars

\* a second level was started through startGame and one spawn timeout is
\* pending
C23_Witness ==
  /\ Emitted(log, "setLevel")
  /\ inputs = MaxClearInputs - 2
  /\ timelineRunning
  /\ createPending = 1

\* C24: a score click changes blockSpeed only when it is the
\* increaseSpeedEvery-th since the counter was reset, and then to
\* blockSpeed + min(level / 4, 2) clamped to the level's ceiling; a danger
\* click changes neither blockSpeed, createInterval nor the counter.
C24_SpeedUpEverySecondClick ==
  [][/\ (Emitted(log', "scoreblock-click") /\ ~SpeedUpClick)
          => /\ blockSpeed' = blockSpeed
             /\ increaseSpeedStep' = increaseSpeedStep + 1
     /\ SpeedUpClick
          => /\ blockSpeed' = Min(blockSpeed + Min(15 * bcLevel, 2 * SpeedUnit),
                                  levelCeiling)
             /\ increaseSpeedStep' = 0
     /\ Emitted(log', "dangerblock-click")
          => /\ blockSpeed' = blockSpeed
             /\ createInterval' = createInterval
             /\ increaseSpeedStep' = increaseSpeedStep]_vars

\* the second score click of a level has just raised the speed
C24_Witness ==
  /\ Emitted(log, "scoreblock-click")
  /\ increaseSpeedStep = 0
  /\ inputs = MaxBlockInputs - 3
  /\ score = 2 * scoreBlockScore(isTouch)
  /\ blockSpeed = SpeedUnit * initialBlockSpeedConst + 24 * bcLevel
                   + 15 * bcLevel

\* C25: with no game in progress and the main menu shown, the 'p' key and
\* the dashboard's pause/resume button change neither isPaused,
\* isGameInProgress, level nor score, and emit no event.
C25_PauseIgnoredAtMainMenu ==
  [][(menuDisplayed["main"] /\ ~isGameInProgress /\ (KeyP \/ DashboardClick))
       => /\ log' = <<>>
          /\ UNCHANGED <<isPaused, isGameInProgress, level, score>>]_vars

\* C26: a 'play' click is accepted only while the main menu is displayed
\* and no animation of it is in flight, it queues one hide, and the end of
\* that hide emits 'start-new-game' exactly once.
C26_PlayAcceptedOnce ==
  [][/\ Emitted(log', "action:start-new-game")
          => /\ menuDisplayed["main"]
             /\ animQueue["main"] = <<>>
             /\ animQueue'["main"] = <<"startNew">>
     /\ (/\ animQueue["main"] # <<>>
         /\ Head(animQueue["main"]) = "startNew"
         /\ animQueue'["main"] = Tail(animQueue["main"]))
          => Count(log', "start-new-game") = 1]_vars

\* C27: once a restart is accepted as the last input of a run,
\* 'start-new-game' is emitted and after it 'initiate-gameplay', with
\* isGameInProgress true and the level timer and the simulator running.
C27_RestartReachesPlaying ==
  /\ (Emitted(log, "action:restart-game") /\ inputs = 0)
       ~> Emitted(log, "start-new-game")
  /\ (Emitted(log, "action:restart-game") /\ inputs = 0)
       ~> (Emitted(log, "initiate-gameplay") /\ Playing)

\* a restart has been accepted as the last input of the run
C27_Witness ==
  /\ Emitted(log, "action:restart-game")
  /\ inputs = 0

\* every entity a pool has created is in its free list, once
AllReturned ==
  /\ Len(scoreFree) = scoreMade
  /\ Len(dangerFree) = dangerMade
  /\ NoRepeat(scoreFree)
  /\ NoRepeat(dangerFree)

\* C28: after endLevel the active set becomes empty with every entity back
\* in its pool, and no entity is ever in a free list twice, also when
\* endLevel is called again before its timeout has fired.
C28_EndLevelClearsAll ==
  /\ [](NoRepeat(scoreFree) /\ NoRepeat(dangerFree))
  /\ (endTimers > 0) ~> (blocks = <<>> /\ AllReturned)

\* the timeout of an endLevel has emptied the active set while the timeout
\* of a second endLevel is still pending
C28_Witness ==
  /\ endTimers = 1
  /\ blocks = <<>>
  /\ spawns = 0
  /\ AllReturned
  /\ scoreMade + dangerMade > 2 * PoolSize

\* C29: setLevel(n) sets blockSpeed to min(2 + 0.4 n, maxBlockSpeed), with
\* 0.75 n on touch, createInterval to initialCreateInterval and
\* increaseSpeedStep to 0, and leaves the active set, lastColumn and
\* dangerZonePosition unchanged.
C29_SetLevelFrame ==
  [][\A lv \in 1..MaxLevel :
       SetLevel(lv) =>
         /\ blockSpeed' = Min(SpeedUnit * initialBlockSpeedConst
                                + (IF isTouch THEN 45 ELSE 24) * lv,
                              maxBlockSpeed(isTouch))
         /\ createInterval' = initialCreateInterval(isTouch)
         /\ increaseSpeedStep' = 0
         /\ UNCHANGED <<blocks, lastColumn, dangerZonePosition>>]_vars

\* setLevel has been called with an entity active, after a score click had
\* shortened the interval and advanced the counter
C29_Witness ==
  /\ Emitted(log, "setLevel")
  /\ blocks # <<>>
  /\ score > 0
  /\ inputs = 0
  /\ createInterval = initialCreateInterval(isTouch)
  /\ increaseSpeedStep = 0

\* C30: a tick raises blockSpeed by 0.2 for every score entity that reaches
\* the danger zone in it, up to 10, and by nothing for a danger entity.
C30_ReachEndSpeedsUp ==
  [][Emitted(log', "gameTick") =>
       blockSpeed' = Min(blockSpeed
                           + 12 * Count(log', "scoreblock-reach-end"),
                         SpeedUnit * 10)]_vars

\* a danger entity has reached the danger zone at speed 10, the last of
\* seventeen entities that were all missed
C30_Witness ==
  /\ Emitted(log, "dangerblock-reach-end")
  /\ blockSpeed = SpeedUnit * 10
  /\ spawns = 0

\* C31 as stated: the number of entities a pool has allocated never exceeds
\* the most entities that were out of it at the same time.
C31_AllocatedAtMostPeak ==
  /\ scoreMade <= peak.score
  /\ dangerMade <= peak.danger

\* C31: a pool has never allocated more than the larger of what add(n)
\* preallocated and the most entities that were out of it at the same time;
\* get() allocates one entity, and only when the free list is empty.
C31_AllocatedAtMostPeakOrPreallocated ==
  /\ [](/\ scoreMade <= Max(PoolSize, peak.score)
        /\ dangerMade <= Max(PoolSize, peak.danger))
  /\ [][/\ scoreMade' # scoreMade
             => scoreFree = <<>> /\ scoreMade' = scoreMade + 1
        /\ dangerMade' # dangerMade
             => dangerFree = <<>> /\ dangerMade' = dangerMade + 1]_vars

\* three score entities were handed out, one of them a reused one: the score
\* pool allocated a single entity beyond the preallocated ones
C31_Witness ==
  /\ spawns = 0
  /\ peak.danger = 0
  /\ peak.score = PoolSize + 1
  /\ scoreMade = PoolSize + 1

\* every a in q is directly followed by b
Follows(q, a, b) ==
  \A i \in 1..Len(q) : q[i] = a => i < Len(q) /\ q[i + 1] = b

\* C32: dispatch is synchronous and depth-first, handlers in registration
\* order: 'restart-game' runs 'start-new-game' at once, whose first handler
\* (game area) emits 'show-instructions', all handled before the later
\* handler of 'start-new-game' (block controller) calls setLevel and reads
\* the danger zone position the first handler has set.
C32_DispatchDepthFirst ==
  /\ Follows(log, "restart-game", "start-new-game")
  /\ Follows(log, "start-new-game", "show-instructions")
  /\ Follows(log, "show-instructions", "setLevel")
  /\ Emitted(log, "start-new-game")
       => /\ instrTimers > 0
          /\ bcLevel = level
          /\ dangerZonePosition = gaDangerZonePosition

\* a restart has just been dispatched down to the block controller
C32_Witness ==
  /\ Emitted(log, "restart-game")
  /\ Emitted(log, "show-instructions")
  /\ Emitted(log, "setLevel")
  /\ instrTimers = 1

\* C33: initializeGame called with no canvas raises an error and changes
\* nothing else; no handler is registered, so the session stays as it was
\* created; initializeGame returns only with a canvas.
C33_NoCanvasFails ==
  /\ [][(boot.phase = "new" /\ ~boot.canvas /\ boot'.phase # "new")
         => (boot'.phase = "failed" /\ Created' /\ ~mainMenuTimer')]_vars
  /\ [](boot.phase = "failed" => (Created /\ ~mainMenuTimer))
  /\ [](boot.phase = "initialized" => boot.canvas)

\* initializeGame has thrown
C33_Witness == boot.phase = "failed" /\ ~boot.canvas

\* chain c exists and is in the phase
ChainIn(c, phase) ==
  IF c <= Len(hs.chains) THEN hs.chains[c].phase = phase ELSE FALSE

\* the items of chain c when all the same
SameItem(c) ==
  \A i \in 1..Len(hs.chains[c].sent) : hs.chains[c].sent[i] = hs.chains[c].sent[1]

\* C34: after a failed save the same data item is sent again, once per
\* failure, until a save succeeds; after a success nothing more is sent.
C34_SaveRetriedUntilSuccess ==
  /\ [](\A c \in 1..Len(hs.chains) : SameItem(c))
  /\ [][\A c \in 1..Len(hs.chains) :
          /\ hs.chains[c].phase = "done" => hs'.chains[c] = hs.chains[c]
          /\ hs.chains[c].phase = "flight"
               => hs'.chains[c].sent = hs.chains[c].sent
          /\ hs.chains[c].phase = "timer"
               => \/ hs'.chains[c] = hs.chains[c]
                  \/ /\ hs'.chains[c].phase = "flight"
                     /\ Len(hs'.chains[c].sent)
                          = Len(hs.chains[c].sent) + 1]_vars
  /\ \A c \in 1..MaxChains : ChainIn(c, "timer") ~> ChainIn(c, "flight")

\* a save went through at its third attempt, after another score had been
\* placed above the saved one
C34_Witness ==
  /\ Len(hs.chains) = 1
  /\ hs.chains[1].phase = "done"
  /\ Len(hs.chains[1].sent) = 3
  /\ hs.made = 2
  /\ hs.newHighScoreIndex < Len(hs.data)
  /\ hs.data[hs.newHighScoreIndex + 1] # hs.chains[1].sent[1]

\* C35: 'resume-game' is emitted once at a time and only while paused (the
\* last of 'pause-game', 'resume-game' and reset was a 'pause-game'), and at
\* most one animation-frame callback of the level timer is scheduled.
C35_ResumeOncePerPause ==
  /\ [][Emitted(log', "resume-game")
         => (isPaused /\ Count(log', "resume-game") = 1)]_vars
  /\ [](Len(rafs) <= 1)

\* C36: between two events the level timer is sampling (an animation-frame
\* callback of it is scheduled) exactly when the simulator is running (the
\* timeline runs and a spawn timeout is pending).
C36_TimerAndSimulatorTogether ==
  (rafs # <<>>) <=> (timelineRunning /\ createPending > 0)

\* C37: a menu's isAnimating is true as long as one of its show or hide
\* animations is in flight, and a click on one of its items is accepted only
\* when none is.
C37_AnimatingWhileInFlight ==
  /\ [](\A m \in Menus : animQueue[m] # <<>> => isAnimating[m])
  /\ [][\A m \in Menus : \A item \in MenuItems[m] :
          MenuClick(m, item) => animQueue[m] = <<>>]_vars

\* C38: a click on an active entity changes score only while the session
\* is Playing.
C38_ScoreOnlyWhilePlaying ==
  [][((Emitted(log', "scoreblock-click")
         \/ Emitted(log', "dangerblock-click")) /\ ~Playing)
       => score' = score]_vars

\* C39: whenever the simulator is running, the block controller has the
\* controller's level and the danger zone position the game area computed
\* for that level (setDangerZoneSize(level / 2 + 0.5)).
C39_SimulatorHasLevel ==
  timelineRunning =>
    /\ bcLevel = level
    /\ dangerZonePosition = gaDangerZonePosition
    /\ gaDangerZonePosition = stageHeight - DangerZoneHalfStep * (level + 1)

\* C40: the timeout set after a failed load issues a new load request, and
\* the menu is never loading with neither a request nor a timeout pending.
C40_FailedLoadRetried ==
  /\ [][LoadRetryTimeout => hs'.loads = hs.loads + 1]_vars
  /\ [](hs.loading => (hs.loads > 0 \/ hs.loadTimers > 0))

====
